---------------------------- MODULE Spec2Model ----------------------------
(*************************************************************************)
(* A model of src/vs/editor/browser/list/list.ts: the virtualized list.  *)
(*                                                                       *)
(*   ViewModel                 the versioned item sequence and its splice *)
(*   ListViewItemsChangedEvent the decomposition of a change event        *)
(*   ListViewContext           the event queue and its flush              *)
(*   ListViewLayout            the offset index and the scrollable        *)
(*   ListView / ListWidget     the scheduled flush + render cycle         *)
(*                                                                       *)
(* Arrays are 0-based in the source and 1-based here: the element at      *)
(* source index i is seq[i + 1].  Indices carried in events and in        *)
(* variables keep their source (0-based) values.                          *)
(*************************************************************************)
EXTENDS Integers, Sequences, FiniteSets, TLC

\* ------------------------------------------------------------------ bounds

\* Longest item sequence the model explores.
MaxLen == 2

\* Most items handed to one splice call.
MaxIns == 2

\* Most splice calls in one behaviour.
MaxSplices == 2

\* Most events emitted into a dispatcher in one behaviour.
MaxEmits == 3

\* In the widget's cycle: the longest item sequence, the most items handed
\* to one splice, the most splices in one behaviour, and the most events
\* the callers leave pending before the scheduled flush runs.
MaxItems == 2

MaxBatch == 2

MaxChanges == 1

MaxQueue == 2

\* The clock is seen to step this many times.
MaxTicks == 2

\* The longest model whose window is scrolled.
MaxRows == 3

\* The scrollable alone: sizes and offsets asked for reach up to MaxScroll
\* and a half.
MaxScroll == 2

\* ------------------------------------------------------------- helpers

Min(a, b) == IF a < b THEN a ELSE b

Max(a, b) == IF a > b THEN a ELSE b

Range(s) == {s[k] : k \in 1..Len(s)}

RECURSIVE SumSeq(_)
SumSeq(s) == IF s = <<>> THEN 0 ELSE Head(s) + SumSeq(Tail(s))

\* All sequences over S of length at most n.
SeqsUpTo(S, n) == UNION {[1..k -> S] : k \in 0..n}

\* Array.prototype.slice's resolution of a relative index against a length:
\* a negative index counts from the end, and the result is clamped to 0..len.
RelativeIndex(k, len) == IF k < 0 THEN Max(len + k, 0) ELSE Min(k, len)

\* arr.slice(begin, end): the elements at (0-based) begin .. end-1, after
\* both indices were resolved as above; never fails.
slice(arr, begin, end) ==
    LET b == RelativeIndex(begin, Len(arr))
        e == RelativeIndex(end, Len(arr))
    IN  IF b < e THEN SubSeq(arr, b + 1, e) ELSE <<>>

\* arr.slice(begin): to the end of the array.
sliceFrom(arr, begin) == slice(arr, begin, Len(arr))

\* ------------------------------------------------------------ the items

\* The IListItem objects of the application: each answers getHeight() and
\* renders its own content.
ListItems == {[height |-> 1, content |-> "a"], [height |-> 2, content |-> "b"]}

Heights == {i.height : i \in ListItems}

\* ViewModel._toMyItems: each item's height is read once, here, and cached.
toMyItems(inp) ==
    [k \in 1..Len(inp) |-> [cachedHeight |-> inp[k].height, actual |-> inp[k]]]

\* ViewModel.getAllHeights
getAllHeights(its) == [k \in 1..Len(its) |-> its[k].cachedHeight]

\* class ViewModelChangedEvent
ViewModelChangedEvent(versionId, start, deleteCnt, inserted) ==
    [versionId |-> versionId, start |-> start, deleteCnt |-> deleteCnt,
     inserted |-> inserted]


\* ------------------------------------------------------------ variables

VARIABLES
    items,        \* ViewModel._items
    versionId,    \* ViewModel._versionId
    changes,      \* a recording subscriber of onDidChange: the versionIds received
    lastChange,   \* the same subscriber: <<the last event received>>, or <<>>
    lastSplice,   \* <<the last splice call: its arguments and the state before>>
    nSplices,     \* splice calls made so far
    vmEvent,      \* the ViewModelChangedEvent handed to the decomposition
    lvEvent,      \* <<the ListViewItemsChangedEvent built from vmEvent>>, or <<>>
    listeners,    \* ListViewContext._listeners
    events,       \* ListViewContext._events
    signals,      \* calls of _onEventAdded since the last flush began
    pc,           \* where flush() stands: "idle" (not running), "before", "loop",
                  \* "dispatch", "after"
    eventHandlers,\* flush's local copy of the listeners
    fi,           \* flush's loop variable i
    fe,           \* <<flush's local e, the event being dispatched>>, or <<>>
    log,          \* the listener methods called by the running (or last) flush
    flushListeners, \* the listeners registered when that flush started
    emitted,      \* the kinds of all events emitted so far, in emission order
    nShift,       \* events taken off the queue so far
    fstart,       \* nShift when the running (or last) flush started
    flushed,      \* whether a flush has run to its end
    view,         \* whether ListWidget._view is set (a live ListView)
    domNodeDimension, \* ListWidget._domNodeDimension
    layoutData,   \* ListViewLayout._layoutData: the values of the offset index
    scrollable,   \* ListViewLayout._scrollable
    renderAnimationFrame, \* whether ListView._renderAnimationFrame is set
    rafQueue,     \* callbacks of the view the animation-frame scheduler holds
    hist,         \* the last operation, and what happened since the last flush
                  \* began: emits, render requests, calls on the offset index
    renderedItems,      \* ListView._renderedItems
    renderedItemsStart, \* ListView._renderedItemsStart
    listItemsDomNode,   \* the children of ListView._listItemsDomNode
    scrollDomNode,      \* ListView._scrollDomNode: a node's id, 0 for null
    scrollDomNodeIsAbove, \* ListView._scrollDomNodeIsAbove
    now,          \* the clock
    rendered      \* what the last callback of the scheduler did

modelVars == <<items, versionId>>

ctxVars == <<listeners, events, signals>>

flushVars == <<pc, eventHandlers, fi, fe>>

ctxHistory == <<log, flushListeners, emitted, nShift, fstart, flushed>>

cycleVars ==
    <<view, domNodeDimension, layoutData, scrollable, renderAnimationFrame, rafQueue, hist,
      renderedItems, renderedItemsStart, listItemsDomNode, scrollDomNode,
      scrollDomNodeIsAbove, now, rendered>>

probeVars == <<changes, lastChange, lastSplice, nSplices>>

decomposeVars == <<vmEvent, lvEvent>>

vars == <<modelVars, probeVars, decomposeVars, ctxVars, flushVars, ctxHistory, cycleVars>>

\* ------------------------------------------------------------ ViewModel

\* ViewModel.constructor: the items given, at version 1.
InitialVersionId == 1

\* this._versionId++ : the version after a splice that found version v.
NextVersionId_Same(v) == v

NextVersionId(v) == v + 1

\* before.concat(items).concat(after), with before = slice(0, start) and
\* after = slice(start + deleteCnt).  No argument is validated.
spliceItems_KeepDeleted(its, start, deleteCnt, new) ==
    slice(its, 0, start) \o new \o sliceFrom(its, start)

spliceItems(its, start, deleteCnt, new) ==
    slice(its, 0, start) \o new \o sliceFrom(its, start + deleteCnt)

\* The event fired at the end of splice: the new version and the raw
\* arguments, the new items as their cached heights.
spliceEvent_AllHeights(its, ver, start, deleteCnt, new) ==
    ViewModelChangedEvent(ver, start, deleteCnt, getAllHeights(its))

spliceEvent(its, ver, start, deleteCnt, new) ==
    ViewModelChangedEvent(ver, start, deleteCnt, getAllHeights(new))

\* ViewModel.splice as a whole: the new state, the one event it fires, and
\* whether it threw (the method has no throw and calls nothing that throws
\* on an out-of-range index).
ViewModelSplice(its, ver, start, deleteCnt, inp) ==
    LET new == toMyItems(inp)
        v == NextVersionId(ver)
        after == spliceItems(its, start, deleteCnt, new)
    IN  [items |-> after, versionId |-> v,
         fired |-> <<spliceEvent(after, v, start, deleteCnt, new)>>,
         threw |-> FALSE]

\* The arguments spec section 4.1 calls out of range.
OutOfRange(len, start, deleteCnt) ==
    start < 0 \/ start > len \/ start + deleteCnt > len

\* A caller of splice may pass any integers: these are the ones explored.
SpliceStarts == -1 .. MaxLen + 1

SpliceDeleteCnts == -1 .. MaxLen + 1

SpliceInputs == SeqsUpTo(ListItems, MaxIns)

InitModel ==
    /\ items \in {toMyItems(inp) : inp \in SeqsUpTo(ListItems, MaxLen)}
    /\ versionId = InitialVersionId

InitProbe ==
    /\ changes = <<>>
    /\ lastChange = <<>>
    /\ lastSplice = <<>>
    /\ nSplices = 0

\* model.splice(start, deleteCnt, inp) with any arguments, observed by a
\* subscriber of onDidChange that records what it receives.
SpliceCall(start, deleteCnt, inp) ==
    LET r == ViewModelSplice(items, versionId, start, deleteCnt, inp)
    IN  /\ nSplices < MaxSplices
        /\ Len(r.items) <= MaxLen
        /\ items' = r.items
        /\ versionId' = r.versionId
        /\ changes' = changes \o [k \in 1..Len(r.fired) |-> r.fired[k].versionId]
        /\ lastChange' = IF r.fired = <<>> THEN lastChange ELSE <<r.fired[Len(r.fired)]>>
        /\ lastSplice' = <<[start |-> start, deleteCnt |-> deleteCnt, inp |-> inp,
                            items |-> items, versionId |-> versionId,
                            changes |-> changes, fired |-> Len(r.fired),
                            threw |-> r.threw]>>
        /\ nSplices' = nSplices + 1
        /\ UNCHANGED <<decomposeVars, ctxVars, flushVars, ctxHistory, cycleVars>>

\* ---------------------------------------------- ListViewItemsChangedEvent

\* The constructor of ListViewItemsChangedEvent: the first
\* min(deleteCnt, |inserted|) heights are changed in place, the rest of
\* the heights are inserted and the rest of the delete count is deleted,
\* both at the end of the changed run.
changedOf_Max(e) == slice(e.inserted, 0, Max(e.deleteCnt, Len(e.inserted)))

changedOf(e) == slice(e.inserted, 0, Min(e.deleteCnt, Len(e.inserted)))

ListViewItemsChangedEvent(e) ==
    LET changed == changedOf(e)
    IN  [kind |-> "items",
         versionId |-> e.versionId,
         changedStart |-> e.start,
         changed |-> changed,
         insertStart |-> e.start + Len(changed),
         inserted |-> sliceFrom(e.inserted, Len(changed)),
         deleteStart |-> e.start + Len(changed),
         deleteCnt |-> e.deleteCnt - Len(changed)]

\* The demo at the end of the file: vm.splice(5, 50, newItems) with 1000
\* new items of heights in 20..35, on the model at version 1.
DemoStart == 5

DemoDeleteCnt == 50

DemoInserted == 1000

DemoMinHeight == 20

DemoHeightSpread == 16

DemoEvent ==
    ViewModelChangedEvent(NextVersionId(InitialVersionId), DemoStart, DemoDeleteCnt,
        [k \in 1..DemoInserted |-> DemoMinHeight + (k % DemoHeightSpread)])

DecomposeInputs ==
    {ViewModelChangedEvent(NextVersionId(InitialVersionId), s, d, ins) :
        s \in SpliceStarts, d \in SpliceDeleteCnts, ins \in SeqsUpTo(Heights, MaxIns + 1)}
    \cup {DemoEvent}

InitDecompose ==
    /\ vmEvent \in DecomposeInputs
    /\ lvEvent = <<>>

InitDecomposeIdle ==
    /\ vmEvent = ViewModelChangedEvent(InitialVersionId, 0, 0, <<>>)
    /\ lvEvent = <<>>

\* new ListViewItemsChangedEvent(e), as ListView.acceptViewModelEvent does.
Decompose ==
    /\ lvEvent = <<>>
    /\ lvEvent' = <<ListViewItemsChangedEvent(vmEvent)>>
    /\ UNCHANGED <<vmEvent, modelVars, probeVars, ctxVars, flushVars, ctxHistory, cycleVars>>

\* ------------------------------------------------------ ListViewContext

\* The listeners a dispatcher may be given.
Handlers == {"view", "layout"}

\* The classes of event flush tells apart with instanceof.
EventKinds == {"dim", "scroll", "items"}

\* ListViewContext.constructor
InitCtx ==
    /\ listeners = <<>>
    /\ events = <<>>
    /\ signals = 0

InitFlush ==
    /\ pc = "idle"
    /\ eventHandlers = <<>>
    /\ fi = 0
    /\ fe = <<>>

InitCtxHistory ==
    /\ log = <<>>
    /\ flushListeners = <<>>
    /\ emitted = <<>>
    /\ nShift = 0
    /\ fstart = 0
    /\ flushed = FALSE

\* addEventHandler: warns about a listener already present, and appends it
\* in either case.
addEventHandler(ls, h) == Append(ls, h)

\* removeEventHandler: removes the first occurrence, if any.
removeEventHandler(ls, h) ==
    IF \E k \in 1..Len(ls) : ls[k] = h
    THEN LET k == CHOOSE n \in 1..Len(ls) : ls[n] = h /\ \A m \in 1..(n - 1) : ls[m] # h
         IN  SubSeq(ls, 1, k - 1) \o SubSeq(ls, k + 1, Len(ls))
    ELSE ls

\* emitSoon: this._events.push(e).  (The call of _onEventAdded that follows
\* is the caller's signals' = signals + 1, or the owner's _scheduleRender.)
emitSoon(evts, e) == Append(evts, e)

\* emitManySoon: this._events.concat(e), e being one event.
emitManySoon(evts, e) == evts \o <<e>>

\* this._events.shift(): the oldest event leaves the queue.
shift_Pop(evts) == [e |-> evts[Len(evts)], rest |-> SubSeq(evts, 1, Len(evts) - 1)]

shift(evts) == [e |-> Head(evts), rest |-> Tail(evts)]

\* The listeners flush calls: its copy eventHandlers = _listeners.slice(0),
\* taken before the first call, and not the live list.
HandlersInUse_Live(copy, live) == live

HandlersInUse(copy, live) == copy

\* The three blocks of flush in their order: the onBeforeEventsDispatch
\* loop, the while loop over the queue, the onAfterEventsDispatch loop.
FlushBlocks_AfterFirst == <<"before", "after", "loop">>

FlushBlocks == <<"before", "loop", "after">>

\* The block that follows block b, "idle" after the last.
NextBlock(b) ==
    LET k == CHOOSE n \in 1..Len(FlushBlocks) : FlushBlocks[n] = b
    IN  IF k = Len(FlushBlocks) THEN "idle" ELSE FlushBlocks[k + 1]

\* Whether flush dispatches an event of this kind to the listeners (scroll
\* events are dropped: "nothing for now").
Dispatched(kind) == kind \in {"dim", "items"}

\* What a listener does to the dispatcher while one of its methods runs:
\* nothing, register or unregister a listener, or emit an event.
Effects ==
    {<<"none", "">>}
    \cup {<<"add", h>> : h \in Handlers}
    \cup {<<"remove", h>> : h \in Handlers}
    \cup {<<"emitSoon", k>> : k \in EventKinds}
    \cup {<<"emitManySoon", k>> : k \in EventKinds}

\* One call on the dispatcher from outside flush or from inside a listener.
\* No caller registers a listener twice (addEventHandler reports that as a
\* mistake).
Apply(eff) ==
    /\ eff[1] = "add" => ~(eff[2] \in Range(listeners))
    /\ eff[1] \in {"emitSoon", "emitManySoon"} => Len(emitted) < MaxEmits
    /\ listeners' = CASE eff[1] = "add" -> addEventHandler(listeners, eff[2])
                      [] eff[1] = "remove" -> removeEventHandler(listeners, eff[2])
                      [] OTHER -> listeners
    /\ events' = CASE eff[1] = "emitSoon" ->
                          emitSoon(events, [kind |-> eff[2], id |-> Len(emitted) + 1])
                   [] eff[1] = "emitManySoon" ->
                          emitManySoon(events, [kind |-> eff[2], id |-> Len(emitted) + 1])
                   [] OTHER -> events
    /\ signals' = IF eff[1] \in {"emitSoon", "emitManySoon"} THEN signals + 1 ELSE signals
    /\ emitted' = IF eff[1] \in {"emitSoon", "emitManySoon"}
                  THEN Append(emitted, eff[2]) ELSE emitted

otherVarsOfCtx == <<modelVars, probeVars, decomposeVars, cycleVars>>

\* A call on the dispatcher while no flush runs.
CtxCall(eff) ==
    /\ pc = "idle"
    /\ eff[1] # "none"
    /\ Apply(eff)
    /\ UNCHANGED <<flushVars, log, flushListeners, nShift, fstart, flushed, otherVarsOfCtx>>

\* flush(), line 269: the copy of the listeners.
FlushStart ==
    /\ pc = "idle"
    /\ pc' = FlushBlocks[1]
    /\ eventHandlers' = slice(listeners, 0, Len(listeners))
    /\ fi' = 0
    /\ fe' = <<>>
    /\ log' = <<>>
    /\ flushListeners' = listeners
    /\ fstart' = nShift
    /\ signals' = 0
    /\ UNCHANGED <<listeners, events, emitted, nShift, flushed, otherVarsOfCtx>>

\* One iteration of a for loop of flush: the method `hook` of listener i
\* is called (for event ev, 0 for the two hooks), and does eff.
CallListener(hook, ev, eff) ==
    /\ fi < Len(HandlersInUse(eventHandlers, listeners))
    /\ log' = Append(log, [hook |-> hook,
                           handler |-> HandlersInUse(eventHandlers, listeners)[fi + 1],
                           event |-> ev])
    /\ fi' = fi + 1
    /\ Apply(eff)
    /\ UNCHANGED <<pc, eventHandlers, fe, flushListeners, nShift, fstart, flushed, otherVarsOfCtx>>

\* The end of one of the two hook loops: on to the next block.
LeaveBlock ==
    /\ fi >= Len(HandlersInUse(eventHandlers, listeners))
    /\ pc' = NextBlock(pc)
    /\ fi' = 0
    /\ flushed' = (flushed \/ NextBlock(pc) = "idle")
    /\ UNCHANGED <<eventHandlers, fe, ctxVars, log, flushListeners, emitted, nShift, fstart, otherVarsOfCtx>>

BeforeCall(eff) == pc = "before" /\ CallListener("before", 0, eff)

BeforeDone == pc = "before" /\ LeaveBlock

\* while (this._events.length > 0) { let e = this._events.shift(); ...
LoopShift ==
    /\ pc = "loop"
    /\ events # <<>>
    /\ events' = shift(events).rest
    /\ fe' = <<shift(events).e>>
    /\ nShift' = nShift + 1
    /\ pc' = IF Dispatched(shift(events).e.kind) THEN "dispatch" ELSE "loop"
    /\ fi' = 0
    /\ UNCHANGED <<eventHandlers, listeners, signals, log, flushListeners, emitted, fstart, flushed, otherVarsOfCtx>>

\* ... the queue is empty: the while loop ends.
LoopExit ==
    /\ pc = "loop"
    /\ events = <<>>
    /\ pc' = NextBlock(pc)
    /\ fi' = 0
    /\ fe' = <<>>
    /\ flushed' = (flushed \/ NextBlock(pc) = "idle")
    /\ UNCHANGED <<eventHandlers, ctxVars, log, flushListeners, emitted, nShift, fstart, otherVarsOfCtx>>

\* onDimensionChanged(e) or onItemsChanged(e) of listener i.
DispatchCall(eff) == pc = "dispatch" /\ CallListener(fe[1].kind, fe[1].id, eff)

\* Every listener got e: back to the head of the while loop.
DispatchDone ==
    /\ pc = "dispatch"
    /\ fi >= Len(HandlersInUse(eventHandlers, listeners))
    /\ pc' = "loop"
    /\ fi' = 0
    /\ UNCHANGED <<eventHandlers, fe, ctxVars, ctxHistory, otherVarsOfCtx>>

AfterCall(eff) == pc = "after" /\ CallListener("after", 0, eff)

AfterDone == pc = "after" /\ LeaveBlock

\* ------------------------------------------------------------ Scrollable

\* new Scrollable()
NewScrollable ==
    [width |-> 0, height |-> 0, scrollWidth |-> 0, scrollHeight |-> 0,
     scrollLeft |-> 0, scrollTop |-> 0]

\* _emitScrollEvent, received by the layout's scroll listener, which wraps
\* it in a ListViewScrollEvent.
ListViewScrollEvent(s, vertical, horizontal) ==
    [kind |-> "scroll", vertical |-> vertical, horizontal |-> horizontal,
     scrollTop |-> s.scrollTop, scrollLeft |-> s.scrollLeft]

\* The setters answer the new scrollable and the scroll events fired, in
\* order.  All sizes are whole numbers here, which Math.floor leaves alone.
Unscrolled(s) == [s |-> s, ev |-> <<>>]

setScrollTop_NotClamped(s, scrollTop) ==
    LET a == IF scrollTop < 0 THEN 0 ELSE scrollTop
        t == [s EXCEPT !.scrollTop = a]
    IN  IF s.scrollTop # a
        THEN [s |-> t, ev |-> <<ListViewScrollEvent(t, TRUE, FALSE)>>]
        ELSE Unscrolled(s)

setScrollTop(s, scrollTop) ==
    LET a == IF scrollTop < 0 THEN 0 ELSE scrollTop
        b == IF a + s.height > s.scrollHeight THEN s.scrollHeight - s.height ELSE a
        t == [s EXCEPT !.scrollTop = b]
    IN  IF s.scrollTop # b
        THEN [s |-> t, ev |-> <<ListViewScrollEvent(t, TRUE, FALSE)>>]
        ELSE Unscrolled(s)

setScrollHeight(s, scrollHeight) ==
    LET v == IF scrollHeight < s.height THEN s.height ELSE scrollHeight
    IN  IF s.scrollHeight # v
        THEN setScrollTop([s EXCEPT !.scrollHeight = v], s.scrollTop)
        ELSE Unscrolled(s)

setHeight(s, height) ==
    LET h == IF height < 0 THEN 0 ELSE height
        r1 == setScrollHeight([s EXCEPT !.height = h], s.scrollHeight)
        r2 == setScrollTop(r1.s, r1.s.scrollTop)
    IN  IF s.height # h THEN [s |-> r2.s, ev |-> r1.ev \o r2.ev] ELSE Unscrolled(s)

setScrollLeft(s, scrollLeft) ==
    LET a == IF scrollLeft < 0 THEN 0 ELSE scrollLeft
        b == IF a + s.width > s.scrollWidth THEN s.scrollWidth - s.width ELSE a
        t == [s EXCEPT !.scrollLeft = b]
    IN  IF s.scrollLeft # b
        THEN [s |-> t, ev |-> <<ListViewScrollEvent(t, FALSE, TRUE)>>]
        ELSE Unscrolled(s)

setScrollWidth(s, scrollWidth) ==
    LET v == IF scrollWidth < s.width THEN s.width ELSE scrollWidth
    IN  IF s.scrollWidth # v
        THEN setScrollLeft([s EXCEPT !.scrollWidth = v], s.scrollLeft)
        ELSE Unscrolled(s)

setWidth(s, width) ==
    LET w == IF width < 0 THEN 0 ELSE width
        r1 == setScrollWidth([s EXCEPT !.width = w], s.scrollWidth)
        r2 == setScrollLeft(r1.s, r1.s.scrollLeft)
    IN  IF s.width # w THEN [s |-> r2.s, ev |-> r1.ev \o r2.ev] ELSE Unscrolled(s)

\* ------------------------------------------- the offset index (contract)

\* PrefixSumComputer, by its contract (spec section 6), over the sequence
\* of values it holds: replace a run, remove a run, insert a run, total.
changeValues(vals, start, new) ==
    [k \in 1..Len(vals) |->
        IF start < k /\ k <= start + Len(new) THEN new[k - start] ELSE vals[k]]

removeValues(vals, start, cnt) ==
    SubSeq(vals, 1, start) \o SubSeq(vals, start + cnt + 1, Len(vals))

insertValues(vals, start, new) ==
    SubSeq(vals, 1, start) \o new \o SubSeq(vals, start + 1, Len(vals))

getTotalValue(vals) == SumSeq(vals)

getCount(vals) == Len(vals)

\* -------------------------------------------------------- ListViewLayout

\* The viewport sizes the widget is given.
Dimensions == {[width |-> 1, height |-> h] : h \in {1, 3}}

\* The scroll positions the scrollbar asks for: the top, and one below it.
ScrollTops == 0 .. 1

\* The model the widget is given: items of the two kinds in turn, as the
\* demo's loop builds them.
InitialItems(n) ==
    [k \in 1..n |->
        IF k % 2 = 1 THEN [height |-> 1, content |-> "a"]
        ELSE [height |-> 2, content |-> "b"]]

\* The batches spliced in: some items of one kind.
Batches == {[k \in 1..n |-> it] : it \in ListItems, n \in 0..MaxBatch}

\* class ListViewDimensionChangedEvent
ListViewDimensionChangedEvent(newDimension) ==
    [kind |-> "dim", newDimension |-> newDimension]

\* ListView._scheduleRender: a callback is requested from the scheduler
\* only when none is held.
ShouldRequest_Always(held) == TRUE

ShouldRequest(held) == ~held

\* The state of one live view, as the operators below thread it:
\*   events, signals, renderAnimationFrame, rafQueue, layoutData,
\*   scrollable, and of hist: emits, requests, calls.
scheduleRender(st) ==
    IF ShouldRequest(st.renderAnimationFrame)
    THEN [st EXCEPT !.renderAnimationFrame = TRUE, !.rafQueue = @ + 1, !.requests = @ + 1]
    ELSE st

\* The onEventAdded callback the view gives its context.
onEventAdded_Idle(st) == [st EXCEPT !.signals = @ + 1]

onEventAdded(st) == scheduleRender([st EXCEPT !.signals = @ + 1])

\* ctx.emitSoon(e) on the view's context.
viewEmitSoon(st, e) ==
    onEventAdded([st EXCEPT !.events = emitSoon(@, e), !.emits = @ + 1])

RECURSIVE viewEmitAll(_, _)
viewEmitAll(st, evs) ==
    IF evs = <<>> THEN st ELSE viewEmitAll(viewEmitSoon(st, Head(evs)), Tail(evs))

\* The layout's scroll listener: a setter's result is stored and each
\* scroll event it fired is emitted into the context.
scrolled(st, r) == viewEmitAll([st EXCEPT !.scrollable = r.s], r.ev)

\* ListViewLayout.onDimensionChanged
LayoutOnDimensionChanged(st, e) ==
    LET st1 == scrolled(st, setWidth(st.scrollable, e.newDimension.width))
    IN  scrolled(st1, setHeight(st1.scrollable, e.newDimension.height))

\* ListViewLayout.onItemsChanged: the index is told of the changed run,
\* then of the deleted run, then of the inserted run.
indexAfterChanged(vals, e) == changeValues(vals, e.changedStart, e.changed)

indexAfterDeleted_AtChangedStart(vals, e) == removeValues(vals, e.changedStart, e.deleteCnt)

indexAfterDeleted(vals, e) == removeValues(vals, e.deleteStart, e.deleteCnt)

indexAfterInserted_None(vals, e) == vals

indexAfterInserted(vals, e) == insertValues(vals, e.insertStart, e.inserted)

indexAfterItemsChanged(vals, e) ==
    indexAfterInserted(indexAfterDeleted(indexAfterChanged(vals, e), e), e)

LayoutOnItemsChanged_Idle(st, e) == st

LayoutOnItemsChanged(st, e) ==
    [st EXCEPT !.layoutData = indexAfterItemsChanged(@, e),
               !.calls = @ \o <<"changeValues", "removeValues", "insertValues">>]

\* ListViewLayout.onAfterEventsDispatch
LayoutOnAfterEventsDispatch_None(st) == st

LayoutOnAfterEventsDispatch(st) ==
    scrolled(st, setScrollHeight(st.scrollable, getTotalValue(st.layoutData)))

\* PrefixSumComputer.getAccumulatedValue(index), by its contract: the sum
\* of the values at 0 .. index, and 0 for index -1.
getAccumulatedValue(vals, index) == SumSeq(SubSeq(vals, 1, index + 1))

\* PrefixSumComputer.getValue(index)
getValue(vals, index) == vals[index + 1]

\* PrefixSumComputer.getIndexOf(offset), by its contract: the index of the
\* item whose range holds the offset; an offset beyond the total clamps
\* to the last item, and the empty index answers 0.
getIndexOf(vals, offset) ==
    LET holds == {k \in 0..(Len(vals) - 1) :
                     /\ getAccumulatedValue(vals, k - 1) <= offset
                     /\ offset < getAccumulatedValue(vals, k)}
    IN  IF holds # {} THEN CHOOSE k \in holds : TRUE
        ELSE Max(0, Len(vals) - 1)

\* The loop of getRenderData: the offsets pushed from currentIndex on.
PastViewport_AtBottomEdge(currentOffset, offset2) == currentOffset >= offset2

PastViewport(currentOffset, offset2) == currentOffset > offset2

RECURSIVE topsFrom(_, _, _, _)
topsFrom(vals, currentIndex, currentOffset, offset2) ==
    IF currentIndex >= getCount(vals) \/ PastViewport(currentOffset, offset2)
    THEN <<>>
    ELSE <<currentOffset>> \o
         topsFrom(vals, currentIndex + 1,
                  currentOffset + getValue(vals, currentIndex), offset2)

\* ListViewLayout.getRenderData
getRenderData(vals, s) ==
    LET offset1 == s.scrollTop
        offset2 == s.scrollTop + s.height
        startIndex == getIndexOf(vals, offset1)
    IN  [startIndex |-> startIndex,
         tops |-> topsFrom(vals, startIndex,
                           getAccumulatedValue(vals, startIndex - 1), offset2),
         width |-> s.width, height |-> s.height,
         scrollLeft |-> s.scrollLeft, scrollTop |-> s.scrollTop,
         scrollWidth |-> s.scrollWidth, scrollHeight |-> s.scrollHeight]

\* ------------------------------------------------------ the list surface

\* The children of _listItemsDomNode are nodes
\*   [id, lineNumber, top, height, content, time]
\* where time is the node's last-scroll-time attribute, 0 when it has none.

\* The ids of the nodes attached.
Attached(dom) == {dom[k].id : k \in 1..Len(dom)}

\* parent.removeChild(node); removing a node that is no child throws.
removeChild(dom, id) ==
    LET Other(n) == n.id # id IN SelectSeq(dom, Other)

\* parent.replaceChild(source, node)
replaceChild(dom, source, id) ==
    [k \in 1..Len(dom) |-> IF dom[k].id = id THEN source ELSE dom[k]]

\* The node of that id among the children.
NodeOf(dom, id) == dom[CHOOSE k \in 1..Len(dom) : dom[k].id = id]

\* _getScrollDomNodeTime
getScrollDomNodeTime(dom, id) == IF id \in Attached(dom) THEN NodeOf(dom, id).time ELSE 0

\* Node ids: the k-th id no node in use carries.
RECURSIVE FreshId(_, _)
FreshId(used, k) ==
    LET least == CHOOSE n \in 1..(Cardinality(used) + 1) : n \notin used
    IN  IF k = 1 THEN least ELSE FreshId(used \cup {least}, k - 1)

\* -------------------------------------------------------------- ViewItem

\* new ViewItem(model), and who made it: "render" (a line created by
\* _render), "flush" (by onItemsChanged), "before" (it is older than the
\* running callback).  wasDirty and wrote record what _finishRendering
\* found and did.
createLine(made) ==
    [isDirty |-> TRUE, domNode |-> 0, made |-> made, wasDirty |-> FALSE, wrote |-> FALSE]

\* ViewItem.onChanged
onChanged(line) == [line EXCEPT !.isDirty = TRUE]

\* ViewItem.shouldUpdateHTML
shouldUpdateHTML_Always(line) == TRUE

shouldUpdateHTML(line) == line.isDirty

\* The ids of the nodes the lines hold.
NodesOf(lines) == {lines[k].domNode : k \in 1..Len(lines)} \ {0}

\* The nodes of these lines taken off the surface, line by line.
RECURSIVE removeNodesOf(_, _)
removeNodesOf(st, lines) ==
    IF lines = <<>> THEN st
    ELSE LET id == Head(lines).domNode
             st1 == IF id = 0 THEN st
                    ELSE [st EXCEPT !.listItemsDomNode = removeChild(@, id),
                                    !.threw = @ \/ id \notin Attached(st.listItemsDomNode),
                                    !.destroyed = @ + 1]
         IN  removeNodesOf(st1, Tail(lines))

\* ------------------------------------------------ ListView.onItemsChanged

\* handle changed: the rendered lines at the changed indexes are flagged.
viewAfterChanged_None(st, e) == st

viewAfterChanged(st, e) ==
    [st EXCEPT !.renderedItems =
        [k \in 1..Len(@) |->
            LET changedIndex == st.renderedItemsStart + k - 1
            IN  IF e.changedStart <= changedIndex /\ changedIndex < e.changedStart + Len(e.changed)
                THEN onChanged(@[k]) ELSE @[k]]]

\* handle deleted: the start moves up by the lines deleted above, and the
\* rendered lines deleted leave the array and the surface.
viewAfterDeleted(st, e) ==
    LET start == st.renderedItemsStart
        lines == st.renderedItems
        from == Max(e.deleteStart - start, 0)
        to == Min(e.deleteStart + e.deleteCnt - 1 - start, Len(lines) - 1)
        newStart == IF e.deleteStart < start
                    THEN IF e.deleteStart + e.deleteCnt - 1 < start
                         THEN start - (e.deleteStart + e.deleteCnt - 1 - e.deleteStart + 1)
                         ELSE e.deleteStart
                    ELSE start
        st1 == [st EXCEPT !.renderedItemsStart = newStart]
    IN  IF from <= to
        THEN [removeNodesOf(st1, SubSeq(lines, from + 1, to + 1)) EXCEPT
                 !.renderedItems = SubSeq(lines, 1, from) \o SubSeq(lines, to + 2, Len(lines))]
        ELSE st1

\* handle inserted: above the rendered lines the start moves down; among
\* them new lines are put in and as many lines are popped off the end.
viewAfterInserted(st, e) ==
    LET start == st.renderedItemsStart
        lines == st.renderedItems
        insertFrom == Min(e.insertStart - start, Len(lines) - 1)
        insertTo == Min(e.insertStart + Len(e.inserted) - 1 - start, Len(lines) - 1)
        insertCount == insertTo - insertFrom + 1
        grown == SubSeq(lines, 1, insertFrom)
                     \o [k \in 1..insertCount |-> createLine("flush")]
                     \o SubSeq(lines, insertFrom + 1, Len(lines))
    IN  IF e.insertStart <= start
        THEN [st EXCEPT !.renderedItemsStart =
                            start + (e.insertStart + Len(e.inserted) - 1 - e.insertStart + 1)]
        ELSE IF e.insertStart >= start + Len(lines) THEN st
        ELSE IF insertFrom <= insertTo
        THEN [removeNodesOf(st, SubSeq(grown, Len(lines) + 1, Len(grown))) EXCEPT
                 !.renderedItems = SubSeq(grown, 1, Len(lines))]
        ELSE st

\* ListView.onItemsChanged
ViewOnItemsChanged(st, e) == viewAfterInserted(viewAfterDeleted(viewAfterChanged(st, e), e), e)

\* -------------------------------------------------------------- ListView

\* One listener's handler for one event.  ListView.onDimensionChanged
\* sizes the scrollbar's node, which is no part of this state.
listenerOn(st, h, e) ==
    CASE h = "layout" /\ e.kind = "dim" -> LayoutOnDimensionChanged(st, e)
      [] h = "layout" /\ e.kind = "items" -> LayoutOnItemsChanged(st, e)
      [] h = "view" /\ e.kind = "items" -> ViewOnItemsChanged(st, e)
      [] OTHER -> st

RECURSIVE dispatchTo(_, _, _)
dispatchTo(st, hs, e) ==
    IF hs = <<>> THEN st ELSE dispatchTo(listenerOn(st, Head(hs), e), Tail(hs), e)

\* The while loop of flush, run to its end: events emitted by a handler
\* join the queue and are taken by the same loop.
RECURSIVE flushLoop(_, _)
flushLoop(st, hs) ==
    IF st.events = <<>> THEN st
    ELSE LET sh == shift(st.events)
             st1 == [st EXCEPT !.events = sh.rest]
         IN  flushLoop(IF Dispatched(sh.e.kind) THEN dispatchTo(st1, hs, sh.e) ELSE st1, hs)

\* One listener's hook.
hookOn(st, h, hook) ==
    IF h = "layout" /\ hook = "after" THEN LayoutOnAfterEventsDispatch(st) ELSE st

RECURSIVE hooksOn(_, _, _)
hooksOn(st, hs, hook) ==
    IF hs = <<>> THEN st ELSE hooksOn(hookOn(st, Head(hs), hook), Tail(hs), hook)

RECURSIVE flushBlocks(_, _, _)
flushBlocks(st, hs, blocks) ==
    IF blocks = <<>> THEN st
    ELSE flushBlocks(IF Head(blocks) = "loop" THEN flushLoop(st, hs)
                     ELSE hooksOn(st, hs, Head(blocks)),
                     hs, Tail(blocks))

\* ListViewContext.flush on the view's context, as one step: nothing else
\* runs while it does.
flush(st, ls) == flushBlocks(st, HandlersInUse(slice(ls, 0, Len(ls)), ls), FlushBlocks)

\* ------------------------------------------------------- ListView._render

\* ViewModel.getHeightOf(index) and ViewModel.render(out, index); an index
\* the model does not hold throws, shown here as -1 and "?".
InModel(its, index) == 0 <= index /\ index < Len(its)

getHeightOf(its, index) == IF InModel(its, index) THEN its[index + 1].cachedHeight ELSE -1

renderOf(its, index) == IF InModel(its, index) THEN its[index + 1].actual.content ELSE "?"

\* deltaTop[i]; past the array's end JavaScript reads undefined, here -1.
topAt(deltaTop, i) == IF 0 <= i /\ i < Len(deltaTop) THEN deltaTop[i + 1] ELSE -1

\* ViewItem.getLineOuterHTML: the node the markup of a line makes.
getLineOuterHTML(its, id, lineNumber, deltaTop) ==
    [id |-> id, lineNumber |-> lineNumber, top |-> deltaTop,
     height |-> getHeightOf(its, lineNumber), content |-> renderOf(its, lineNumber),
     time |-> 0]

\* ViewItem.layoutLine on the line's node.
layoutLine_KeepTop(dom, its, id, lineNumber, deltaTop) ==
    [k \in 1..Len(dom) |->
        IF dom[k].id = id
        THEN [dom[k] EXCEPT !.lineNumber = lineNumber,
                            !.height = getHeightOf(its, lineNumber)]
        ELSE dom[k]]

layoutLine(dom, its, id, lineNumber, deltaTop) ==
    [k \in 1..Len(dom) |->
        IF dom[k].id = id
        THEN [dom[k] EXCEPT !.lineNumber = lineNumber, !.top = deltaTop,
                            !.height = getHeightOf(its, lineNumber)]
        ELSE dom[k]]

\* The retention time of a scrolled node, in milliseconds.
RetentionTime == 1000

\* _render: a node is retained and its time is less than the retention
\* time ago.
InGrace(st, clock) ==
    /\ st.scrollDomNode # 0
    /\ clock - getScrollDomNodeTime(st.listItemsDomNode, st.scrollDomNode) < RetentionTime

\* _render: whether the retained node may go.
canRemoveScrollDomNode_Always(st, clock) == TRUE

canRemoveScrollDomNode(st, clock) == ~InGrace(st, clock)

\* The retained node leaves the surface, if it is on it, and the slot.
dropScrollDomNode(st) ==
    IF st.scrollDomNode \in Attached(st.listItemsDomNode)
    THEN [st EXCEPT !.listItemsDomNode = removeChild(@, st.scrollDomNode),
                    !.destroyed = @ + 1, !.scrollDomNode = 0]
    ELSE [st EXCEPT !.scrollDomNode = 0]

\* _removeIfNotScrollDomNode
removeIfNotScrollDomNode(st, id, isAbove) ==
    LET dom == st.listItemsDomNode
        time == getScrollDomNodeTime(dom, id)
        gone == [st EXCEPT !.listItemsDomNode = removeChild(@, id),
                           !.threw = @ \/ id \notin Attached(dom),
                           !.destroyed = @ + 1]
    IN  IF time = 0 THEN gone
        ELSE IF st.scrollDomNode # 0 /\ getScrollDomNodeTime(dom, st.scrollDomNode) > time
        THEN gone
        ELSE [(IF st.scrollDomNode # 0 THEN dropScrollDomNode(st) ELSE st) EXCEPT
                 !.scrollDomNode = id, !.scrollDomNodeIsAbove = isAbove]

\* The loop of _removeLinesBefore and _removeLinesAfter over the lines.
RECURSIVE removeLines(_, _, _)
removeLines(st, lines, isAbove) ==
    IF lines = <<>> THEN st
    ELSE removeLines(IF Head(lines).domNode = 0 THEN st
                     ELSE removeIfNotScrollDomNode(st, Head(lines).domNode, isAbove),
                     Tail(lines), isAbove)

\* _removeLinesBefore
removeLinesBefore_None(st, removeCount) == st

removeLinesBefore(st, removeCount) ==
    [removeLines(st, SubSeq(st.renderedItems, 1, removeCount), TRUE) EXCEPT
        !.renderedItems = SubSeq(@, removeCount + 1, Len(@))]

\* _removeLinesAfter
removeLinesAfter_None(st, removeCount) == st

removeLinesAfter(st, removeCount) ==
    LET removeIndex == Len(st.renderedItems) - removeCount
    IN  [removeLines(st, SubSeq(st.renderedItems, removeIndex + 1, Len(st.renderedItems)), FALSE)
            EXCEPT !.renderedItems = SubSeq(@, 1, removeIndex)]

\* _insertLinesBefore
insertLinesBefore(st, fromLineNumber, toLineNumber) ==
    LET cnt == toLineNumber - fromLineNumber + 1
    IN  [st EXCEPT !.renderedItems = [k \in 1..cnt |-> createLine("render")] \o @,
                   !.created = @ + cnt, !.insertedBefore = TRUE]

\* _insertLinesAfter
insertLinesAfter(st, fromLineNumber, toLineNumber) ==
    LET cnt == toLineNumber - fromLineNumber + 1
    IN  [st EXCEPT !.renderedItems = @ \o [k \in 1..cnt |-> createLine("render")],
                   !.created = @ + cnt, !.insertedAfter = TRUE]

\* _renderUntouchedLines
RECURSIVE renderUntouchedLines(_, _, _, _, _, _)
renderUntouchedLines(st, its, startIndex, endIndex, deltaTop, deltaLN) ==
    IF startIndex > endIndex THEN st
    ELSE LET lineNumber == st.renderedItemsStart + startIndex
             id == st.renderedItems[startIndex + 1].domNode
             st1 == IF id = 0 THEN st
                    ELSE [st EXCEPT !.listItemsDomNode =
                             layoutLine(@, its, id, lineNumber, topAt(deltaTop, lineNumber - deltaLN)),
                             !.threw = @ \/ ~InModel(its, lineNumber)]
         IN  renderUntouchedLines(st1, its, startIndex + 1, endIndex, deltaTop, deltaLN)

\* _finishRendering
finishRendering(st, its, domNodeIsEmpty, deltaTop) ==
    LET lines == st.renderedItems
        start == st.renderedItemsStart
        dom == st.listItemsDomNode
        update(i) == shouldUpdateHTML(lines[i])
        wasNew(i) == update(i) /\ lines[i].domNode = 0
        wasInvalid(i) == update(i) /\ lines[i].domNode # 0
        nNew == Cardinality({i \in 1..Len(lines) : wasNew(i)})
        emptied == nNew > 0 /\ (domNodeIsEmpty \/ dom = <<>>)
        used == (IF emptied THEN {} ELSE Attached(dom)) \cup NodesOf(lines)
                    \cup ({st.scrollDomNode, st.held} \ {0})
        idOf(i) == IF wasNew(i)
                   THEN FreshId(used, Cardinality({j \in 1..i : wasNew(j)}))
                   ELSE FreshId(used, nNew + Cardinality({j \in 1..i : wasInvalid(j)}))
        html(i) == getLineOuterHTML(its, idOf(i), i - 1 + start, topAt(deltaTop, i - 1))
        newOnes == SelectSeq([i \in 1..Len(lines) |-> i], wasNew)
        added == [j \in 1..Len(newOnes) |-> html(newOnes[j])]
        dom1 == IF nNew = 0 THEN dom ELSE IF emptied THEN added ELSE dom \o added
        dom2 == [k \in 1..Len(dom1) |->
                    IF \E i \in 1..Len(lines) : wasInvalid(i) /\ lines[i].domNode = dom1[k].id
                    THEN html(CHOOSE i \in 1..Len(lines) :
                                  wasInvalid(i) /\ lines[i].domNode = dom1[k].id)
                    ELSE dom1[k]]
    IN  [st EXCEPT
            !.renderedItems =
                [i \in 1..Len(lines) |->
                    [lines[i] EXCEPT !.isDirty = IF update(i) THEN FALSE ELSE @,
                                     !.domNode = IF update(i) THEN idOf(i) ELSE @,
                                     !.wasDirty = lines[i].isDirty,
                                     !.wrote = update(i)]],
            !.listItemsDomNode = dom2,
            !.destroyed = @ + (IF emptied THEN Len(dom) ELSE 0)
                            + Cardinality({i \in 1..Len(lines) : wasInvalid(i)}),
            !.threw = \/ @
                      \/ \E i \in 1..Len(lines) :
                            /\ update(i)
                            /\ ~InModel(its, i - 1 + start)
                      \/ \E i \in 1..Len(lines) :
                            wasInvalid(i) /\ lines[i].domNode \notin Attached(dom1)]

\* The branch of _render taken when the rendered lines and the lines to
\* show have none in common and no scrolled node is being retained.
renderAfresh(st, its, renderData) ==
    LET startItem == renderData.startIndex
        endItem == renderData.startIndex + Len(renderData.tops) - 1
        st1 == [st EXCEPT !.renderedItemsStart = startItem,
                          !.renderedItems =
                              [k \in 1..(endItem - startItem + 1) |-> createLine("render")],
                          !.created = @ + (endItem - startItem + 1),
                          !.path = "afresh"]
    IN  [finishRendering(st1, its, TRUE, renderData.tops) EXCEPT !.scrollDomNode = 0]

\* The rest of _render: lines kept are laid out, lines are added or
\* removed before and after them.
renderStepwise(st, its, renderData) ==
    LET startItem == renderData.startIndex
        endItem == renderData.startIndex + Len(renderData.tops) - 1
        st1 == renderUntouchedLines([st EXCEPT !.path = "stepwise"], its,
                   Max(startItem - st.renderedItemsStart, 0),
                   Min(endItem - st.renderedItemsStart, Len(st.renderedItems) - 1),
                   renderData.tops, startItem)
        start == st1.renderedItemsStart
        st2 == IF start > startItem
               THEN IF startItem <= Min(endItem, start - 1)
                    THEN LET ins == insertLinesBefore(st1, startItem, Min(endItem, start - 1))
                         IN  IF ins.scrollDomNode # 0 /\ ins.scrollDomNodeIsAbove
                             THEN dropScrollDomNode(ins) ELSE ins
                    ELSE st1
               ELSE IF start < startItem
               THEN IF Min(Len(st1.renderedItems), startItem - start) > 0
                    THEN removeLinesBefore(st1, Min(Len(st1.renderedItems), startItem - start))
                    ELSE st1
               ELSE st1
        st3 == [st2 EXCEPT !.renderedItemsStart = startItem]
        len == Len(st3.renderedItems)
        st4 == IF startItem + len - 1 < endItem
               THEN IF startItem + len <= endItem
                    THEN LET ins == insertLinesAfter(st3, startItem + len, endItem)
                         IN  IF ins.scrollDomNode # 0 /\ ~ins.scrollDomNodeIsAbove
                             THEN dropScrollDomNode(ins) ELSE ins
                    ELSE st3
               ELSE IF startItem + len - 1 > endItem
               THEN LET fromLineNumber == Max(0, endItem - startItem + 1)
                        removeCnt == (len - 1) - fromLineNumber + 1
                    IN  IF removeCnt > 0 THEN removeLinesAfter(st3, removeCnt) ELSE st3
               ELSE st3
    IN  finishRendering(st4, its, FALSE, renderData.tops)

\* Whether the rendered lines and the lines to show have none in common.
NoOverlap_Always(st, startItem, endItem) == TRUE

NoOverlap(st, startItem, endItem) ==
    \/ st.renderedItemsStart + Len(st.renderedItems) - 1 < startItem
    \/ endItem < st.renderedItemsStart

\* Nodes have no names: a node is told from another only by being the
\* same or not.  After a render the ids are those of the places of the
\* nodes among the children.
placeOf(dom, id) ==
    IF id = 0 THEN 0
    ELSE IF id \in Attached(dom) THEN CHOOSE k \in 1..Len(dom) : dom[k].id = id
    ELSE Len(dom) + id

renamed(st) ==
    LET dom == st.listItemsDomNode
    IN  [st EXCEPT
            !.listItemsDomNode = [k \in 1..Len(dom) |-> [dom[k] EXCEPT !.id = k]],
            !.renderedItems = [k \in 1..Len(@) |-> [@[k] EXCEPT !.domNode = placeOf(dom, @)]],
            !.scrollDomNode = placeOf(dom, @)]

\* What a render did to the node it found retained (held): whether that
\* node has left the surface, whether the slot holds another node now, and
\* whether lines were inserted on the side that node had been taken from.
observed(st0, st1) ==
    [st1 EXCEPT
        !.heldGone = st0.held # 0 /\ st0.held \notin Attached(st1.listItemsDomNode),
        !.superseded = st0.held # 0 /\ st1.scrollDomNode \notin {0, st0.held},
        !.regrown = /\ st0.held # 0
                    /\ IF st0.scrollDomNodeIsAbove THEN st1.insertedBefore
                       ELSE st1.insertedAfter,
        !.held = 0, !.insertedBefore = FALSE, !.insertedAfter = FALSE]

\* ListView._render
render(st, its, clock) ==
    LET renderData == getRenderData(st.layoutData, st.scrollable)
        startItem == renderData.startIndex
        endItem == renderData.startIndex + Len(renderData.tops) - 1
        st0 == [st EXCEPT !.renders = @ + 1,
                          !.disjoint = NoOverlap(st, startItem, endItem),
                          !.retaining = InGrace(st, clock),
                          !.nodesBefore = Len(st.listItemsDomNode),
                          !.held = IF st.scrollDomNode \in Attached(st.listItemsDomNode)
                                   THEN st.scrollDomNode ELSE 0,
                          !.insertedBefore = FALSE, !.insertedAfter = FALSE]
        st1 == IF canRemoveScrollDomNode(st0, clock) /\ NoOverlap(st0, startItem, endItem)
               THEN renderAfresh(st0, its, renderData)
               ELSE renderStepwise(st0, its, renderData)
    IN  renamed(observed(st0, st1))

\* _flushAccumulatedAndRenderNow
flushAccumulatedAndRenderNow(st, ls, its, clock) ==
    render([flush(st, ls) EXCEPT !.flushes = @ + 1, !.handled = Len(st.events)], its, clock)

\* The view's state as a record, and back.
ViewState ==
    [events |-> events, signals |-> signals,
     renderAnimationFrame |-> renderAnimationFrame, rafQueue |-> rafQueue,
     layoutData |-> layoutData, scrollable |-> scrollable,
     emits |-> hist.emits, requests |-> hist.requests, calls |-> hist.calls,
     renderedItems |-> renderedItems, renderedItemsStart |-> renderedItemsStart,
     listItemsDomNode |-> listItemsDomNode,
     scrollDomNode |-> scrollDomNode, scrollDomNodeIsAbove |-> scrollDomNodeIsAbove,
     path |-> rendered.path, created |-> rendered.created,
     destroyed |-> rendered.destroyed, threw |-> rendered.threw,
     flushes |-> rendered.flushes, renders |-> rendered.renders,
     handled |-> rendered.handled, cancelled |-> rendered.cancelled,
     disjoint |-> rendered.disjoint, retaining |-> rendered.retaining,
     nodesBefore |-> rendered.nodesBefore,
     heldGone |-> rendered.heldGone, superseded |-> rendered.superseded,
     regrown |-> rendered.regrown,
     disposedSlot |-> rendered.disposedSlot, disposedAttached |-> rendered.disposedAttached,
     held |-> 0, insertedBefore |-> FALSE, insertedAfter |-> FALSE]

SetViewState(st, op) ==
    /\ events' = st.events
    /\ signals' = st.signals
    /\ renderAnimationFrame' = st.renderAnimationFrame
    /\ rafQueue' = st.rafQueue
    /\ layoutData' = st.layoutData
    /\ scrollable' = st.scrollable
    /\ hist' = [op |-> op, emits |-> st.emits, requests |-> st.requests, calls |-> st.calls]
    /\ renderedItems' = st.renderedItems
    /\ renderedItemsStart' = st.renderedItemsStart
    /\ listItemsDomNode' = st.listItemsDomNode
    /\ scrollDomNode' = st.scrollDomNode
    /\ scrollDomNodeIsAbove' = st.scrollDomNodeIsAbove
    /\ rendered' = [path |-> st.path, created |-> st.created, destroyed |-> st.destroyed,
                    threw |-> st.threw, flushes |-> st.flushes, renders |-> st.renders,
                    handled |-> st.handled, cancelled |-> st.cancelled,
                    disjoint |-> st.disjoint, retaining |-> st.retaining,
                    nodesBefore |-> st.nodesBefore,
                    heldGone |-> st.heldGone, superseded |-> st.superseded,
                    regrown |-> st.regrown,
                    disposedSlot |-> st.disposedSlot, disposedAttached |-> st.disposedAttached]

\* What a callback of the scheduler has done: nothing yet.
NotRendered ==
    [path |-> "none", created |-> 0, destroyed |-> 0, threw |-> FALSE,
     flushes |-> 0, renders |-> 0, handled |-> 0, cancelled |-> FALSE,
     disjoint |-> FALSE, retaining |-> FALSE, nodesBefore |-> 0,
     heldGone |-> FALSE, superseded |-> FALSE, regrown |-> FALSE,
     disposedSlot |-> FALSE, disposedAttached |-> FALSE]

\* No view: the fields of the view hold their initial values.
NoViewState ==
    [events |-> <<>>, signals |-> 0, renderAnimationFrame |-> FALSE, rafQueue |-> 0,
     layoutData |-> <<>>, scrollable |-> NewScrollable,
     emits |-> 0, requests |-> 0, calls |-> <<>>,
     renderedItems |-> <<>>, renderedItemsStart |-> 0, listItemsDomNode |-> <<>>,
     scrollDomNode |-> 0, scrollDomNodeIsAbove |-> FALSE,
     path |-> "none", created |-> 0, destroyed |-> 0, threw |-> FALSE,
     flushes |-> 0, renders |-> 0, handled |-> 0, cancelled |-> FALSE,
     disjoint |-> FALSE, retaining |-> FALSE, nodesBefore |-> 0,
     heldGone |-> FALSE, superseded |-> FALSE, regrown |-> FALSE,
     disposedSlot |-> FALSE, disposedAttached |-> FALSE,
     held |-> 0, insertedBefore |-> FALSE, insertedAfter |-> FALSE]

\* ListView.acceptDimension
acceptDimension_Now(st, dimension) ==
    LayoutOnDimensionChanged(
        viewEmitSoon(st, ListViewDimensionChangedEvent(dimension)),
        ListViewDimensionChangedEvent(dimension))

acceptDimension(st, dimension) == viewEmitSoon(st, ListViewDimensionChangedEvent(dimension))

\* ListView.acceptViewModelEvent
acceptViewModelEvent(st, e) == viewEmitSoon(st, ListViewItemsChangedEvent(e))

RECURSIVE acceptViewModelEvents(_, _)
acceptViewModelEvents(st, fired) ==
    IF fired = <<>> THEN st
    ELSE acceptViewModelEvents(acceptViewModelEvent(st, Head(fired)), Tail(fired))

\* new ListView(dimension, model): the context, the view as first listener,
\* the layout (index over the model's heights, scroll height set before the
\* scroll listener exists) as second, then acceptDimension and
\* _scheduleRender.  A callback the scheduler still holds stays with it.
NewViewState(its, dimension, held) ==
    LET st0 == [NoViewState EXCEPT
                   !.rafQueue = held,
                   !.layoutData = getAllHeights(its),
                   !.scrollable = setScrollHeight(NewScrollable,
                                      getTotalValue(getAllHeights(its))).s]
    IN  scheduleRender(acceptDimension(st0, dimension))

\* ListView.dispose: the callback held is cancelled with the scheduler.
disposedRafQueue_NotCancelled(st) == st.rafQueue

disposedRafQueue(st) == IF st.renderAnimationFrame THEN st.rafQueue - 1 ELSE st.rafQueue

\* ListView.dispose: the callback is cancelled and the handle dropped, the
\* layout is disposed; every other field of the view is left as it is.
dispose(st) == [st EXCEPT !.rafQueue = disposedRafQueue(st), !.renderAnimationFrame = FALSE]

\* What setModel leaves of the view it disposed of: whether its retention
\* slot still holds a node, and whether that node is still a child of its
\* list surface.
disposedOf(st, old) ==
    [st EXCEPT
        !.cancelled = old.renderAnimationFrame,
        !.disposedSlot = dispose(old).scrollDomNode # 0,
        !.disposedAttached =
            dispose(old).scrollDomNode \in Attached(dispose(old).listItemsDomNode)]

\* What the last callback did is forgotten with the next operation: its
\* calls on the index, its render, and of each line who made it and what
\* _finishRendering found and did.
forgotten(st) ==
    [st EXCEPT !.calls = <<>>,
               !.path = "none", !.created = 0, !.destroyed = 0,
               !.flushes = 0, !.renders = 0, !.handled = 0, !.cancelled = FALSE,
               !.disjoint = FALSE, !.retaining = FALSE, !.nodesBefore = 0,
               !.heldGone = FALSE, !.superseded = FALSE, !.regrown = FALSE,
               !.disposedSlot = FALSE, !.disposedAttached = FALSE,
               !.renderedItems =
                   [k \in 1..Len(@) |->
                       [@[k] EXCEPT !.made = "before", !.wasDirty = FALSE, !.wrote = FALSE]]]

otherVarsOfCycle == <<probeVars, decomposeVars, flushVars, ctxHistory>>

\* ------------------------------------------------------------ ListWidget

\* The clock read by (new Date()).getTime(), in milliseconds, and the
\* steps it is seen to make.
FirstInstant == 1

ClockStep == RetentionTime \div 2

LastInstant == FirstInstant + MaxTicks * ClockStep

\* No view has rendered.
InitRendered ==
    /\ renderedItems = <<>>
    /\ renderedItemsStart = 0
    /\ listItemsDomNode = <<>>
    /\ scrollDomNode = 0
    /\ scrollDomNodeIsAbove = FALSE
    /\ now = FirstInstant
    /\ rendered = NotRendered

\* new ListWidget(domNode): no model, no view.
InitWidget ==
    /\ view = FALSE
    /\ domNodeDimension \in Dimensions
    /\ listeners = <<>>
    /\ events = <<>>
    /\ signals = 0
    /\ renderAnimationFrame = FALSE
    /\ rafQueue = 0
    /\ layoutData = <<>>
    /\ scrollable = NewScrollable
    /\ hist = [op |-> "new", emits |-> 0, requests |-> 0, calls |-> <<>>]
    /\ InitRendered

\* The same with one fixed dimension, where the widget plays no part.
InitNoWidget ==
    /\ view = FALSE
    /\ domNodeDimension = [width |-> 1, height |-> 1]
    /\ renderAnimationFrame = FALSE
    /\ rafQueue = 0
    /\ layoutData = <<>>
    /\ scrollable = NewScrollable
    /\ hist = [op |-> "new", emits |-> 0, requests |-> 0, calls |-> <<>>]
    /\ InitRendered

\* widget.setModel(model): the old view, if any, is disposed, and a new
\* one is built on the model and subscribed to it.
SetModel ==
    /\ view' = TRUE
    /\ listeners' = addEventHandler(addEventHandler(<<>>, "view"), "layout")
    /\ SetViewState(disposedOf(NewViewState(items, domNodeDimension, dispose(ViewState).rafQueue),
                               ViewState),
                    "setModel")
    /\ UNCHANGED <<modelVars, domNodeDimension, now, otherVarsOfCycle>>

\* widget.setModel(null)
SetModelNull ==
    /\ view
    /\ view' = FALSE
    /\ listeners' = <<>>
    /\ SetViewState(disposedOf([NoViewState EXCEPT !.rafQueue = dispose(ViewState).rafQueue],
                               ViewState),
                    "setModelNull")
    /\ UNCHANGED <<modelVars, domNodeDimension, now, otherVarsOfCycle>>

\* model.splice(start, deleteCnt, inp) with arguments in range; a bound
\* widget hears of it and hands the event to its view.
SpliceUpTo(maxItems, start, deleteCnt, inp) ==
    LET r == ViewModelSplice(items, versionId, start, deleteCnt, inp)
    IN  /\ ~OutOfRange(Len(items), start, deleteCnt)
        /\ versionId < InitialVersionId + MaxChanges
        /\ Len(r.items) <= maxItems
        /\ Len(events) < MaxQueue
        /\ items' = r.items
        /\ versionId' = r.versionId
        /\ IF view
           THEN SetViewState(acceptViewModelEvents(forgotten(ViewState), r.fired), "splice")
           ELSE SetViewState(forgotten(ViewState), "splice")
        /\ UNCHANGED <<view, listeners, domNodeDimension, now, otherVarsOfCycle>>

Splice(start, deleteCnt, inp) ==
    /\ \A k \in 1..Len(events) : events[k].kind # "scroll"
    /\ SpliceUpTo(MaxItems, start, deleteCnt, inp)

\* The same on the longer models of the specifications of the window.
SpliceRows(start, deleteCnt, inp) ==
    /\ \A k \in 1..Len(events) : events[k].kind = "items"
    /\ SpliceUpTo(MaxRows, start, deleteCnt, inp)

\* widget.layout(dimension)
Layout(dimension) ==
    /\ Len(events) < MaxQueue
    /\ domNodeDimension' = dimension
    /\ IF view
       THEN SetViewState(acceptDimension(forgotten(ViewState), dimension), "layout")
       ELSE SetViewState(forgotten(ViewState), "layout")
    /\ UNCHANGED <<view, listeners, modelVars, now, otherVarsOfCycle>>

\* The scrollbar (mouse wheel, slider) sets a scroll position.
ScrollTo(y) ==
    /\ view
    /\ Len(events) < MaxQueue
    /\ setScrollTop(scrollable, y).ev # <<>>
    /\ SetViewState(scrolled(forgotten(ViewState), setScrollTop(scrollable, y)), "scroll")
    /\ UNCHANGED <<view, listeners, domNodeDimension, modelVars, now, otherVarsOfCycle>>

\* One scroll position is set between two callbacks of the scheduler.
Scroll(y) == events = <<>> /\ ScrollTo(y)

\* The scheduler runs a callback it holds.  The view's own: the handle is
\* dropped, then _flushAccumulatedAndRenderNow.  A callback of a view
\* disposed since (stale) would run on that view.
AnimationFrame(stale) ==
    /\ IF stale
       THEN /\ rafQueue > (IF view /\ renderAnimationFrame THEN 1 ELSE 0)
            /\ SetViewState([forgotten(ViewState) EXCEPT !.rafQueue = @ - 1], "staleFrame")
       ELSE /\ view /\ renderAnimationFrame
            /\ rafQueue > 0
            /\ SetViewState(
                   flushAccumulatedAndRenderNow(
                       [forgotten(ViewState) EXCEPT
                           !.renderAnimationFrame = FALSE, !.rafQueue = @ - 1,
                           !.signals = 0, !.emits = 0, !.requests = 0],
                       listeners, items, now),
                   "frame")
    /\ UNCHANGED <<view, listeners, domNodeDimension, modelVars, now, otherVarsOfCycle>>

\* The surface stamps the node under the mouse wheel with the time.
Stamp(k) ==
    /\ view
    /\ k \in 1..Len(listItemsDomNode)
    /\ listItemsDomNode[k].time # now
    /\ SetViewState([forgotten(ViewState) EXCEPT !.listItemsDomNode[k].time = now], "stamp")
    /\ UNCHANGED <<view, listeners, domNodeDimension, modelVars, now, otherVarsOfCycle>>

\* Time passes.
Tick ==
    /\ now < LastInstant
    /\ now' = now + ClockStep
    /\ SetViewState(forgotten(ViewState), "tick")
    /\ UNCHANGED <<view, listeners, domNodeDimension, modelVars, otherVarsOfCycle>>

\* ------------------------------------------------------- specifications

\* The view model alone, under any calls of splice.
InitVM ==
    /\ InitModel /\ InitProbe /\ InitDecomposeIdle
    /\ InitCtx /\ InitFlush /\ InitCtxHistory /\ InitNoWidget

NextVM == \E s \in SpliceStarts, d \in SpliceDeleteCnts, inp \in SpliceInputs : SpliceCall(s, d, inp)

SpecVM == InitVM /\ [][NextVM]_vars

\* The decomposition alone, applied to each change event of DecomposeInputs.
InitDec ==
    /\ items = <<>>
    /\ versionId = InitialVersionId
    /\ InitProbe
    /\ InitDecompose
    /\ InitCtx /\ InitFlush /\ InitCtxHistory /\ InitNoWidget

NextDec == Decompose

SpecDecompose == InitDec /\ [][NextDec]_vars

\* The dispatcher alone, under listeners that may call it back from any of
\* their methods.
InitDispatch ==
    /\ items = <<>>
    /\ versionId = InitialVersionId
    /\ InitProbe
    /\ InitDecomposeIdle
    /\ InitCtx /\ InitFlush /\ InitCtxHistory /\ InitNoWidget

NextDispatch ==
    \/ \E eff \in Effects : CtxCall(eff)
    \/ FlushStart
    \/ \E eff \in Effects : BeforeCall(eff)
    \/ BeforeDone
    \/ LoopShift
    \/ LoopExit
    \/ \E eff \in Effects : DispatchCall(eff)
    \/ DispatchDone
    \/ \E eff \in Effects : AfterCall(eff)
    \/ AfterDone

SpecDispatch == InitDispatch /\ [][NextDispatch]_vars

\* The widget's cycle: a model, the widget bound to it or not, splices in
\* range, resizes, scrolling, and the scheduled flush.
Init ==
    /\ items \in {toMyItems(InitialItems(n)) : n \in {0, MaxItems}}
    /\ versionId = InitialVersionId
    /\ InitProbe
    /\ InitDecomposeIdle
    /\ InitFlush /\ InitCtxHistory
    /\ InitWidget

Next ==
    \/ SetModel
    \/ SetModelNull
    \/ \E start \in 0..MaxItems, deleteCnt \in 0..MaxItems, inp \in Batches :
           Splice(start, deleteCnt, inp)
    \/ \E dimension \in Dimensions \ {domNodeDimension} :
           (\A k \in 1..Len(events) : events[k].kind # "dim") /\ Layout(dimension)
    \/ \E y \in ScrollTops : Scroll(y)
    \/ \E stale \in BOOLEAN : AnimationFrame(stale)

Spec == Init /\ [][Next]_vars

\* The same under a scheduler that runs the callback it was asked for: a
\* callback of the live view that stays requested is run in the end.  A
\* step is a run of that callback exactly if it leaves "frame" in hist;
\* FrameHists are the values hist can have then: no more than four scroll
\* events emitted for each event handled and one by the after hook, one
\* callback requested, three calls on the index for each items event.
IndexCalls(n) ==
    [i \in 1..(3 * n) |-> <<"changeValues", "removeValues", "insertValues">>[((i - 1) % 3) + 1]]

FrameHists ==
    [op : {"frame"}, emits : 0..(4 * MaxQueue + 1), requests : 0..1,
     calls : {IndexCalls(n) : n \in 0..MaxQueue}]

FrameRuns ==
    /\ view /\ renderAnimationFrame
    /\ rafQueue > 0
    /\ hist' \in FrameHists

SpecFair == Init /\ [][Next]_vars /\ WF_hist(FrameRuns)

\* The window: a longer model, bound to the widget, spliced, scrolled over
\* its whole height and rendered.
RowTops == 0 .. (2 * MaxRows)

InitWindow ==
    /\ items = toMyItems(InitialItems(MaxRows))
    /\ versionId = InitialVersionId
    /\ InitProbe
    /\ InitDecomposeIdle
    /\ InitFlush /\ InitCtxHistory
    /\ InitWidget

NextWindow ==
    \/ SetModel
    \/ \E start \in 0..MaxRows, deleteCnt \in 0..MaxRows, inp \in Batches :
           SpliceRows(start, deleteCnt, inp)
    \/ \E y \in RowTops : Scroll(y)
    \/ \E stale \in BOOLEAN : AnimationFrame(stale)

SpecWindow == InitWindow /\ [][NextWindow]_vars

\* Scrolling: the longest model, bound, scrolled while the surface stamps
\* nodes and time passes.
InitScroll ==
    /\ items = toMyItems(InitialItems(MaxRows))
    /\ versionId = InitialVersionId
    /\ InitProbe
    /\ InitDecomposeIdle
    /\ InitFlush /\ InitCtxHistory
    /\ InitWidget

NextScroll ==
    \/ SetModel
    \/ \E y \in RowTops : Scroll(y)
    \/ \E stale \in BOOLEAN : AnimationFrame(stale)
    \/ \E k \in 1..(MaxRows + 1) : Stamp(k)
    \/ Tick

SpecScroll == InitScroll /\ [][NextScroll]_vars

\* Shrinking: the same, and the model is cut short by splices that only
\* delete.
InitShrink ==
    /\ items = toMyItems(InitialItems(MaxRows))
    /\ versionId = InitialVersionId
    /\ InitProbe
    /\ InitDecomposeIdle
    /\ InitFlush /\ InitCtxHistory
    /\ InitWidget

NextShrink ==
    \/ SetModel
    \/ \E start \in 0..MaxRows, deleteCnt \in 0..MaxRows :
           SpliceRows(start, deleteCnt, <<>>)
    \/ \E y \in RowTops : Scroll(y)
    \/ \E stale \in BOOLEAN : AnimationFrame(stale)
    \/ \E k \in 1..(MaxRows + 1) : Stamp(k)
    \/ Tick

SpecShrink == InitShrink /\ [][NextShrink]_vars

\* The scrollable alone, under any calls of its setters.  An argument is a
\* number given in halves (3 stands for 1.5, -1 for -0.5), which Math.floor
\* at the head of every setter brings to a whole number; events holds the
\* scroll events the call fired, as a listener of addScrollListener sees
\* them.
floor(halves) == halves \div 2

ScrollArgs == (-2)..(2 * MaxScroll + 1)

SetterCalled(name, r) ==
    /\ scrollable' = r.s
    /\ events' = r.ev
    /\ hist' = [op |-> name, emits |-> Len(r.ev), requests |-> 0, calls |-> <<>>]
    /\ UNCHANGED <<modelVars, probeVars, decomposeVars, listeners, signals, flushVars,
                   ctxHistory, view, domNodeDimension, layoutData, renderAnimationFrame,
                   rafQueue, renderedItems, renderedItemsStart, listItemsDomNode,
                   scrollDomNode, scrollDomNodeIsAbove, now, rendered>>

SetWidth(x) == SetterCalled("setWidth", setWidth(scrollable, floor(x)))

SetHeight(x) == SetterCalled("setHeight", setHeight(scrollable, floor(x)))

SetScrollWidth(x) == SetterCalled("setScrollWidth", setScrollWidth(scrollable, floor(x)))

SetScrollHeight(x) == SetterCalled("setScrollHeight", setScrollHeight(scrollable, floor(x)))

SetScrollLeft(x) == SetterCalled("setScrollLeft", setScrollLeft(scrollable, floor(x)))

SetScrollTop(x) == SetterCalled("setScrollTop", setScrollTop(scrollable, floor(x)))

InitScrollable ==
    /\ InitModel /\ InitProbe /\ InitDecomposeIdle
    /\ InitCtx /\ InitFlush /\ InitCtxHistory /\ InitNoWidget

NextScrollable ==
    \/ \E x \in ScrollArgs : SetWidth(x)
    \/ \E x \in ScrollArgs : SetHeight(x)
    \/ \E x \in ScrollArgs : SetScrollWidth(x)
    \/ \E x \in ScrollArgs : SetScrollHeight(x)
    \/ \E x \in ScrollArgs : SetScrollLeft(x)
    \/ \E x \in ScrollArgs : SetScrollTop(x)

SpecScrollable == InitScrollable /\ [][NextScrollable]_vars


\* ----------------------------------------------------- claims: ViewModel

\* C1: the version starts at 1 and every splice call adds exactly 1 to it;
\* the event of a splice carries the version after the increment, so the
\* versions of the events fired so far are 2, 3, ..., strictly increasing
\* and pairwise distinct.
C1_VersionStrictlyIncreases ==
    /\ versionId = InitialVersionId + nSplices
    /\ Len(changes) = nSplices
    /\ \A i, j \in 1..Len(changes) : i < j => changes[i] < changes[j]
    /\ lastChange # <<>> => /\ lastChange[1].versionId = versionId
                            /\ changes[Len(changes)] = versionId
    /\ lastSplice # <<>> => versionId = lastSplice[1].versionId + 1
    /\ nSplices = 0 => versionId = 1

C1_Witness ==
    /\ nSplices >= 2
    /\ Len(changes) >= 2
    /\ changes[1] # changes[2]

\* C2: a splice call with out-of-range arguments (start < 0, start > length
\* or start + deleteCnt > length) fails: it throws, and the items, the
\* version and the events fired are what they were before the call.
C2_OutOfRangeSpliceRejected ==
    \A k \in 1..Len(lastSplice) :
        LET c == lastSplice[k]
        IN  OutOfRange(Len(c.items), c.start, c.deleteCnt) =>
                /\ c.threw
                /\ items = c.items
                /\ versionId = c.versionId
                /\ changes = c.changes

\* C3: a splice call fires exactly one change event, whose fields are the
\* new version and the call's own start and deleteCnt, and the heights of
\* the new items in the order given; for in-range arguments these are the
\* cached heights the model now holds from position start on.
C3_SpliceFiresOneRawEvent ==
    \A k \in 1..Len(lastSplice) :
        LET c == lastSplice[k]
            hs == [n \in 1..Len(c.inp) |-> c.inp[n].height]
        IN  /\ c.fired = 1
            /\ Len(changes) = Len(c.changes) + 1
            /\ lastChange = <<[versionId |-> versionId, start |-> c.start,
                               deleteCnt |-> c.deleteCnt, inserted |-> hs]>>
            /\ ~OutOfRange(Len(c.items), c.start, c.deleteCnt) /\ c.deleteCnt >= 0 =>
                   /\ Len(items) = Len(c.items) - c.deleteCnt + Len(hs)
                   /\ \A n \in 1..Len(hs) : items[c.start + n].cachedHeight = hs[n]
                   /\ \A n \in 1..Len(hs) : items[c.start + n].actual = c.inp[n]

C3_Witness ==
    /\ lastSplice # <<>>
    /\ lastSplice[1].deleteCnt = 1
    /\ lastSplice[1].start = 0
    /\ Len(lastSplice[1].items) = 1
    /\ lastChange # <<>>
    /\ lastChange[1].inserted = <<2, 1>>

\* ------------------------------------------- claims: the decomposition

\* C4: for a change event (start, deleteCnt, inserted) with deleteCnt >= 0:
\* changed is the first min(deleteCnt, |inserted|) heights, changedStart is
\* start, insertStart = deleteStart = start + |changed|, inserted is the
\* rest of the heights and deleteCnt the rest of the count; changed followed
\* by inserted is the original heights, and the rest inserted and the rest
\* deleted are never both non-empty.  The demo's splice(5, 50, 1000 items)
\* gives 5, 50, 55, 55, 950 and 0.
C4_DecompositionLaw ==
    \A k \in 1..Len(lvEvent) :
        LET e == vmEvent
            d == lvEvent[k]
            n == Min(e.deleteCnt, Len(e.inserted))
        IN  e.deleteCnt >= 0 =>
                /\ d.changed = SubSeq(e.inserted, 1, n)
                /\ d.changedStart = e.start
                /\ d.insertStart = e.start + Len(d.changed)
                /\ d.deleteStart = d.insertStart
                /\ d.inserted = SubSeq(e.inserted, n + 1, Len(e.inserted))
                /\ d.deleteCnt = e.deleteCnt - Len(d.changed)
                /\ d.changed \o d.inserted = e.inserted
                /\ Len(d.changed) + d.deleteCnt = e.deleteCnt
                /\ d.deleteCnt >= 0
                /\ ~(d.inserted # <<>> /\ d.deleteCnt > 0)
                /\ d.versionId = e.versionId
                /\ e = DemoEvent =>
                       /\ d.changedStart = 5
                       /\ Len(d.changed) = 50
                       /\ d.insertStart = 55
                       /\ d.deleteStart = 55
                       /\ Len(d.inserted) = 950
                       /\ d.deleteCnt = 0

C4_Witness ==
    /\ vmEvent = DemoEvent
    /\ lvEvent # <<>>
    /\ Len(lvEvent[1].changed) = 50
    /\ Len(lvEvent[1].inserted) = 950


\* ---------------------------------------------- claims: the dispatcher

\* The calls of onDimensionChanged and onItemsChanged in a log.
Deliveries(l) == SelectSeq(l, LAMBDA x : Dispatched(x.hook))

\* The calls due for the j-th event emitted, on the first n listeners of
\* the flush.
DeliveriesDue(j, n) ==
    IF Dispatched(emitted[j])
    THEN [k \in 1..n |-> [hook |-> emitted[j], handler |-> flushListeners[k], event |-> j]]
    ELSE <<>>

RECURSIVE DeliveriesDueFor(_, _)
DeliveriesDueFor(a, b) ==
    IF a > b THEN <<>>
    ELSE DeliveriesDue(a, Len(flushListeners)) \o DeliveriesDueFor(a + 1, b)

\* C7: events are handled in emission order, none dropped and none twice:
\* the queue always holds exactly the events emitted and not yet taken, in
\* emission order; the deliveries of a flush are, for each dimension-changed
\* or items-changed event taken, in emission order, one call on each
\* listener of the flush; and the while loop ends only on an empty queue.
C7_DeliveredOnceInEmissionOrder ==
    /\ fi <= Len(flushListeners)
    /\ nShift <= Len(emitted)
    /\ nShift + Len(events) = Len(emitted)
    /\ \A k \in 1..Len(events) :
           events[k] = [kind |-> emitted[nShift + k], id |-> nShift + k]
    /\ Deliveries(log) =
           IF pc = "dispatch"
           THEN DeliveriesDueFor(fstart + 1, nShift - 1) \o DeliveriesDue(nShift, fi)
           ELSE DeliveriesDueFor(fstart + 1, nShift)
    /\ pc = "after" /\ fi = 0 => events = <<>>

C7_Witness ==
    /\ pc = "idle"
    /\ flushed
    /\ Len(flushListeners) = 2
    /\ Len(Deliveries(log)) = 4
    /\ Deliveries(log)[1].hook = "items"
    /\ Deliveries(log)[3].hook = "dim"
    /\ nShift - fstart = 3

HookRank(hook) == CASE hook = "before" -> 0 [] hook = "after" -> 2 [] OTHER -> 1

HookCalls(l, hook) == SelectSeq(l, LAMBDA x : x.hook = hook)

HookCallsDue(hook, n) ==
    [k \in 1..n |-> [hook |-> hook, handler |-> flushListeners[k], event |-> 0]]

\* C8: in a flush onBeforeEventsDispatch has run on every listener before
\* any event is delivered, onAfterEventsDispatch runs only once every event
\* taken by the flush was delivered to every listener, and when the flush
\* has ended each hook has run exactly once on each listener.
C8_HooksBracketTheEvents ==
    /\ fi <= Len(flushListeners)
    /\ \A i, j \in 1..Len(log) : i < j => HookRank(log[i].hook) <= HookRank(log[j].hook)
    /\ (\E k \in 1..Len(log) : HookRank(log[k].hook) >= 1) =>
           HookCalls(log, "before") = HookCallsDue("before", Len(flushListeners))
    /\ (\E k \in 1..Len(log) : log[k].hook = "after") =>
           /\ pc \in {"after", "idle"}
           /\ Len(Deliveries(log)) =
                  Len(flushListeners) *
                  Cardinality({j \in (fstart + 1)..nShift : Dispatched(emitted[j])})
    /\ pc = "before" => log = HookCallsDue("before", fi)
    /\ pc = "after" => HookCalls(log, "after") = HookCallsDue("after", fi)
    /\ pc = "idle" /\ flushed =>
           /\ HookCalls(log, "before") = HookCallsDue("before", Len(flushListeners))
           /\ HookCalls(log, "after") = HookCallsDue("after", Len(flushListeners))

C8_Witness ==
    /\ pc = "idle"
    /\ flushed
    /\ Len(flushListeners) = 2
    /\ Len(log) = 8
    /\ log[1].hook = "before"
    /\ log[4].hook = "dim"
    /\ log[5].hook = "items"
    /\ log[8].hook = "after"

\* The listeners called with `hook` for event ev, in call order.
Receivers(hook, ev) ==
    LET calls == SelectSeq(log, LAMBDA x : x.hook = hook /\ x.event = ev)
    IN  [k \in 1..Len(calls) |-> calls[k].handler]

\* C9: the listeners a flush calls are those registered when it started,
\* whatever is registered or unregistered while it runs: each hook and each
\* event delivered goes to exactly those listeners, in their order; a flush
\* starts from the listeners registered at that moment.
C9_FlushUsesListenersAtStart ==
    /\ fi <= Len(flushListeners)
    /\ pc = "before" => Receivers("before", 0) = SubSeq(flushListeners, 1, fi)
    /\ pc \in {"loop", "dispatch", "after"} \/ (pc = "idle" /\ flushed) =>
           Receivers("before", 0) = flushListeners
    /\ \A j \in (fstart + 1)..nShift :
           Dispatched(emitted[j]) =>
               Receivers(emitted[j], j) =
                   IF pc = "dispatch" /\ j = nShift
                   THEN SubSeq(flushListeners, 1, fi) ELSE flushListeners
    /\ pc = "after" => Receivers("after", 0) = SubSeq(flushListeners, 1, fi)
    /\ pc = "idle" /\ flushed => Receivers("after", 0) = flushListeners
    /\ pc # "idle" => eventHandlers = flushListeners
    /\ pc = "before" /\ fi = 0 => flushListeners = listeners

C9_Witness ==
    /\ pc = "after"
    /\ fi = Len(flushListeners)
    /\ Deliveries(log) # <<>>
    /\ \E h \in Range(flushListeners) : ~(h \in Range(listeners))
    /\ \E h \in Range(listeners) : ~(h \in Range(flushListeners))

\* ------------------------------------------------- the index and the model

\* The items-changed events waiting in the view's queue.
ItemsPending == {k \in 1..Len(events) : events[k].kind = "items"}

\* C5 (as stated): for any sequence of splices, the offset index's total
\* value always equals the sum of the cached heights of all items
\* currently in the model.
C5_IndexTotalAlwaysEqualsSum ==
    view => getTotalValue(layoutData) = SumSeq(getAllHeights(items))

\* C5 (amended): for any sequence of splices in range, whenever no
\* items-changed event waits in the view's queue, and so at the end of
\* every flush, the offset index's total value equals the sum of the
\* cached heights of all items currently in the model; between a splice
\* and the flush that follows it the index still holds the total from
\* before the splice.
C5_IndexTotalEqualsSumOnceFlushed ==
    (view /\ ItemsPending = {}) =>
        getTotalValue(layoutData) = SumSeq(getAllHeights(items))

\* A flush has applied a splice that changed the total, and nothing waits.
C5_Witness ==
    /\ view
    /\ ItemsPending = {}
    /\ versionId > InitialVersionId
    /\ hist.op = "frame"
    /\ hist.calls # <<>>
    /\ getTotalValue(layoutData) = SumSeq(getAllHeights(items))
    /\ getTotalValue(layoutData) # SumSeq(getAllHeights(toMyItems(InitialItems(Len(items)))))

RECURSIVE InOrder(_)
InOrder(calls) ==
    \/ calls = <<>>
    \/ /\ Len(calls) >= 3
       /\ SubSeq(calls, 1, 3) = <<"changeValues", "removeValues", "insertValues">>
       /\ InOrder(SubSeq(calls, 4, Len(calls)))

C10_SignalledOncePerIdlePeriod == signals <= 1



\* ------------------------------------------------- claims: render callback

\* C11: the scheduler never holds more than one rendering callback, and the
\* view holds a handle exactly when the scheduler holds its callback; when
\* the callback has run, all the events emitted before it, however many,
\* have been handled by one flush followed by one render: the queue holds
\* no more than what the flush itself emitted.
C11_OneCallbackOneFlushOneRender ==
    /\ rafQueue <= 1
    /\ renderAnimationFrame <=> rafQueue = 1
    /\ hist.op = "frame" =>
           /\ rendered.flushes = 1
           /\ rendered.renders = 1
           /\ Len(events) <= hist.emits

\* Two events at least were pending when the callback ran.
C11_Witness ==
    /\ hist.op = "frame"
    /\ rendered.handled >= 2
    /\ rendered.flushes = 1
    /\ rendered.renders = 1

\* C12: the scheduler holds no callback of a disposed view, whether the
\* view was disposed by setModel(null) or by a rebinding setModel: the only
\* callback it may hold is the one of the live view, so no flush and no
\* render ever runs on a disposed view.
C12_NoCallbackOfADisposedView ==
    /\ hist.op # "staleFrame"
    /\ rafQueue = (IF view /\ renderAnimationFrame THEN 1 ELSE 0)
    /\ ~view => rendered = [NotRendered EXCEPT !.cancelled = rendered.cancelled]

\* A view was disposed while its callback was pending.
C12_Witness ==
    /\ hist.op \in {"setModel", "setModelNull"}
    /\ rendered.cancelled

\* C13: a splice of the model or a layout of the widget, on a bound widget,
\* appends one event to the view's queue and leaves one callback requested;
\* the offset index, the scrollable, the rendered lines, their start index
\* and the surface's nodes are as they were before the call.
MutationOnlyEnqueues ==
    (hist'.op \in {"splice", "layout"} /\ view) =>
        /\ Len(events') = Len(events) + 1
        /\ SubSeq(events', 1, Len(events)) = events
        /\ renderAnimationFrame' /\ rafQueue' = 1
        /\ UNCHANGED <<layoutData, scrollable, renderedItemsStart,
                       listItemsDomNode, scrollDomNode, scrollDomNodeIsAbove>>
        /\ renderedItems' = forgotten(ViewState).renderedItems

C13_MutationOnlyEnqueues == [][MutationOnlyEnqueues]_vars

\* A splice or a layout has just been called on a view that has rendered
\* lines, with an event already pending.
C13_Witness ==
    /\ hist.op \in {"splice", "layout"}
    /\ view
    /\ Len(events) >= 2
    /\ renderedItems # <<>>


\* -------------------------------------------------- claims: rendered window

\* The range _render wants, from the layout's render data.
startItem == getRenderData(layoutData, scrollable).startIndex

endItem == startItem + Len(getRenderData(layoutData, scrollable).tops) - 1

\* C14: when the callback has rendered, on whichever path, the rendered
\* lines start at startItem and there are endItem - startItem + 1 of them:
\* every index of startItem .. endItem has its line, with its node on the
\* surface, and no line has an index outside it.
C14_WindowIsTheDesiredRange ==
    hist.op = "frame" =>
        /\ renderedItemsStart = startItem
        /\ Len(renderedItems) = endItem - startItem + 1
        /\ \A i \in 1..Len(renderedItems) :
               renderedItems[i].domNode \in Attached(listItemsDomNode)

\* A stepwise render has moved a window that was not empty to another
\* start, adding and removing lines.
C14_Witness ==
    /\ hist.op = "frame"
    /\ rendered.path = "stepwise"
    /\ rendered.created > 0
    /\ rendered.destroyed > 0
    /\ renderedItemsStart > 0
    /\ Len(renderedItems) >= 2

C16_OnlyDirtyLinesAreWritten ==
    hist.op = "frame" =>
        \A i \in 1..Len(renderedItems) :
            LET line == renderedItems[i]
            IN  /\ line.wrote => line.wasDirty
                /\ (line.made = "before" /\ line.wasDirty) => hist.calls # <<>>
                /\ line.made # "before" => line.wrote
                /\ ~line.isDirty

\* A stepwise render kept a clean line without writing it and wrote
\* another line.
C16_Witness ==
    /\ hist.op = "frame"
    /\ rendered.path = "stepwise"
    /\ \E i \in 1..Len(renderedItems) :
           /\ renderedItems[i].made = "before"
           /\ ~renderedItems[i].wasDirty
           /\ ~renderedItems[i].wrote
    /\ \E i \in 1..Len(renderedItems) : renderedItems[i].wrote

\* _render called once more on the state the callback left, at the same
\* instant and with no event flushed.
renderedAgain == render(forgotten(ViewState), items, now)

\* C17: a second render with no event in between creates no line and no
\* node, destroys none and writes no content: the lines, their start and
\* the surface's nodes are what the first render left.
C17_RenderTwiceChangesNothing ==
    hist.op = "frame" =>
        /\ renderedAgain.created = 0
        /\ renderedAgain.destroyed = 0
        /\ \A i \in 1..Len(renderedAgain.renderedItems) :
               ~renderedAgain.renderedItems[i].wrote
        /\ renderedAgain.renderedItemsStart = renderedItemsStart
        /\ renderedAgain.renderedItems = forgotten(ViewState).renderedItems
        /\ renderedAgain.listItemsDomNode = listItemsDomNode

\* The callback's render created and destroyed nodes and left lines on
\* the surface; the second render finds them.
C17_Witness ==
    /\ hist.op = "frame"
    /\ rendered.created > 0
    /\ rendered.destroyed > 0
    /\ renderedItems # <<>>
    /\ renderedAgain.renders = 1
    /\ renderedAgain.created = 0

\* Every rendered line was created by this render and its node written by
\* it: no line and no node is one the render found.
AllLinesNew ==
    \A i \in 1..Len(renderedItems) :
        /\ renderedItems[i].made = "render"
        /\ renderedItems[i].wrote

itemTop(k) == getAccumulatedValue(layoutData, k - 1)

itemEnd(k) == getAccumulatedValue(layoutData, k)

\* The items that meet the viewport [scrollTop, scrollTop + height], its
\* bottom edge included.
InViewport ==
    {k \in 0..(getCount(layoutData) - 1) :
        /\ itemTop(k) <= scrollable.scrollTop + scrollable.height
        /\ itemEnd(k) > scrollable.scrollTop}

\* C19: getRenderData answers as startIndex the index of the item whose
\* range holds the scroll top, and as tops the tops of the items from
\* startIndex on that meet the viewport [top, top + height]: these are
\* all the items that meet it, and no item that lies outside it is among
\* them.  An item whose top is the viewport's bottom edge counts as
\* meeting it.
C19_RenderDataIsTheVisibleItems ==
    view =>
        LET renderData == getRenderData(layoutData, scrollable)
            shown == renderData.startIndex ..
                         (renderData.startIndex + Len(renderData.tops) - 1)
        IN  /\ layoutData # <<>> =>
                   /\ itemTop(renderData.startIndex) <= scrollable.scrollTop
                   /\ scrollable.scrollTop < itemEnd(renderData.startIndex)
            /\ shown = InViewport
            /\ \A i \in 1..Len(renderData.tops) :
                   renderData.tops[i] = itemTop(renderData.startIndex + i - 1)

\* The callback has rendered, scrolled down, from render data that end on
\* an item whose top is the viewport's bottom edge and leave out an item
\* further down.
C19_Witness ==
    /\ hist.op = "frame"
    /\ scrollable.scrollTop > 0
    /\ itemTop(endItem) = scrollable.scrollTop + scrollable.height
    /\ endItem < getCount(layoutData) - 1
    /\ Len(renderedItems) = endItem - startItem + 1

C21_QueueEmptyWhenFlushReturns == hist.op = "frame" => events = <<>>


\* ------------------------------------------------ claims: the retained node

\* C22 (as stated): a node held in the retention slot leaves the surface
\* only when a newer eviction takes the slot or when at least 1 second
\* has passed since its timestamp.
C22_RetainedGoesOnlySupersededOrExpired ==
    hist.op = "frame" /\ rendered.heldGone => rendered.superseded \/ ~rendered.retaining

\* C22 (amended): a node held in the retention slot is on the surface, and
\* a render takes it off only when a newer eviction takes the slot, when at
\* least 1 second has passed since its timestamp, or when the window grows
\* again on the side the node was evicted from.
C22_RetainedGoesOnlySupersededExpiredOrRegrown ==
    /\ scrollDomNode # 0 => scrollDomNode \in Attached(listItemsDomNode)
    /\ hist.op = "frame" /\ rendered.heldGone =>
           rendered.superseded \/ ~rendered.retaining \/ rendered.regrown

\* A render has run inside the grace period of the node it found retained
\* and has taken it off the surface: lines were inserted on its side, no
\* other node took the slot.
C22_Witness ==
    /\ hist.op = "frame"
    /\ rendered.heldGone
    /\ rendered.retaining
    /\ rendered.regrown
    /\ ~rendered.superseded
    /\ scrollDomNode = 0

\* C23: when the widget disposes of its view (setModel, rebinding
\* included), the view's retention slot is flushed: the node it holds, if
\* any, is taken off the view's surface and the slot is cleared.
C23_TeardownFlushesTheSlot ==
    hist.op \in {"setModel", "setModelNull"} =>
        ~rendered.disposedSlot /\ ~rendered.disposedAttached


\* ------------------------------------------------ claims: nodes and lines

\* C24: after every render the nodes on the list surface are exactly the
\* nodes of the rendered lines and, if one is retained, the retained node:
\* every rendered line has a node, no two lines have the same node, and
\* no other node (of a line destroyed, or dropped from the retention slot)
\* is left on the surface.
C24_SurfaceIsTheLinesAndTheRetained ==
    hist.op = "frame" =>
        /\ \A k \in 1..Len(renderedItems) : renderedItems[k].domNode # 0
        /\ \A j, k \in 1..Len(renderedItems) :
               j # k => renderedItems[j].domNode # renderedItems[k].domNode
        /\ Cardinality(Attached(listItemsDomNode)) = Len(listItemsDomNode)
        /\ Attached(listItemsDomNode) =
               NodesOf(renderedItems) \cup ({scrollDomNode} \ {0})

\* The sum of the cached heights of the model's items before that index.
heightsBefore(index) == SumSeq([k \in 1..index |-> items[k].cachedHeight])

\* C25: when the callback has rendered, the node of the line at place i of
\* the rendered lines has the top tops[i] of the render data, which is the
\* sum of the cached heights of the model's items before its index, and
\* the cached height of its item as height, whether the node was kept,
\* written again or made by this render.
C25_NodesSitAtTheFreshTops ==
    hist.op = "frame" =>
        \A i \in 1..Len(renderedItems) :
            LET lineNumber == renderedItemsStart + i - 1
                tops == getRenderData(layoutData, scrollable).tops
                node == NodeOf(listItemsDomNode, renderedItems[i].domNode)
            IN  /\ renderedItems[i].domNode \in Attached(listItemsDomNode)
                /\ i <= Len(tops)
                /\ InModel(items, lineNumber)
                /\ node.top = tops[i]
                /\ tops[i] = heightsBefore(lineNumber)
                /\ node.height = items[lineNumber + 1].cachedHeight

\* A stepwise render after a splice: a line was kept clean at a top below
\* the first item, another was written again, another was made.
C25_Witness ==
    /\ hist.op = "frame"
    /\ rendered.path = "stepwise"
    /\ hist.calls # <<>>
    /\ \E i \in 1..Len(renderedItems) :
           /\ renderedItems[i].made = "before"
           /\ ~renderedItems[i].wrote
           /\ NodeOf(listItemsDomNode, renderedItems[i].domNode).top > 0
    /\ \E i \in 1..Len(renderedItems) :
           renderedItems[i].made = "before" /\ renderedItems[i].wrote
    /\ \E i \in 1..Len(renderedItems) : renderedItems[i].made # "before"


\* ------------------------------------------------------ claims: progress

\* The callback of the live view takes every event that was queued when it
\* began: the flush handles them all, and what the queue holds afterwards
\* was emitted by that flush and has asked for the next callback.
FrameTakesAll ==
    AnimationFrame(FALSE) =>
        /\ rendered'.handled = Len(events)
        /\ rendered'.flushes = 1
        /\ rendered'.renders = 1
        /\ Len(events') <= hist'.emits
        /\ events' # <<>> => renderAnimationFrame'

\* C26: an event queued on a live view, of whatever kind and whenever it
\* was emitted (by a splice, a resize, the scrollbar, or the flush itself
\* from its after hook), is taken off the queue in the end, by a callback
\* of the view that flushes all that is queued and renders, unless the
\* view is disposed of first; this under a scheduler that runs the
\* callbacks it was asked for.
\* The second conjunct ties the scheduler's condition to the program: the
\* steps FrameRuns describes are the steps of the live view's callback.
C26_EveryEventIsFlushedAndRendered ==
    /\ [][FrameTakesAll]_vars
    /\ [][AnimationFrame(FALSE) <=> FrameRuns]_hist
    /\ (view /\ events # <<>>) ~> (events = <<>> \/ ~view)

\* A callback has flushed events and its flush has emitted one more, which
\* is queued for the next callback.
C26_Witness ==
    /\ hist.op = "frame"
    /\ rendered.handled >= 1
    /\ hist.emits >= 1
    /\ events # <<>>
    /\ renderAnimationFrame


\* -------------------------------------------------- claims: valid indexes

\* C27: when the callback has flushed and rendered, whatever splices,
\* resizes and scrolls came before it, every index of the range to show
\* (startItem .. endItem) and every index of the rendered lines is an index
\* of the model as it is now, no height was looked up and no item rendered
\* at an index the model does not hold, and over an empty model no line is
\* rendered.
C27_RenderedIndexesAreInTheModel ==
    hist.op = "frame" =>
        /\ \A index \in startItem..endItem : InModel(items, index)
        /\ \A i \in 1..Len(renderedItems) : InModel(items, renderedItemsStart + i - 1)
        /\ ~rendered.threw
        /\ items = <<>> => renderedItems = <<>>

\* The callback flushed a splice of a model scrolled down, and rendered a
\* window that ends with the model's last item.
C27_Witness ==
    /\ hist.op = "frame"
    /\ hist.calls # <<>>
    /\ scrollable.scrollTop > 0
    /\ renderedItems # <<>>
    /\ renderedItemsStart + Len(renderedItems) = Len(items)


\* ------------------------------------------------- claims: the scrollable

\* What a call of a setter fires: a scroll event if and only if scrollTop
\* or scrollLeft has a new value, one event, which says which of the two
\* changed and carries the new offsets.
FiresWhenMoved ==
    LET movedTop == scrollable'.scrollTop # scrollable.scrollTop
        movedLeft == scrollable'.scrollLeft # scrollable.scrollLeft
    IN  /\ events' # <<>> <=> (movedTop \/ movedLeft)
        /\ events' # <<>> =>
              /\ Len(events') = 1
              /\ events'[1].vertical = movedTop
              /\ events'[1].horizontal = movedLeft
              /\ events'[1].scrollTop = scrollable'.scrollTop
              /\ events'[1].scrollLeft = scrollable'.scrollLeft

\* C28: after any calls of the six setters, in any order, with arguments
\* whole or not, negative or beyond the sizes, the content is no smaller
\* than the viewport (scrollHeight >= height, scrollWidth >= width) and the
\* offsets lie within what is left over (0 <= scrollTop <= scrollHeight -
\* height, 0 <= scrollLeft <= scrollWidth - width); and a call fires a
\* scroll event exactly when it changed scrollTop or scrollLeft.
C28_ScrollStateWithinBounds ==
    /\ [](/\ scrollable.scrollHeight >= scrollable.height
          /\ scrollable.scrollWidth >= scrollable.width
          /\ 0 <= scrollable.scrollTop
          /\ scrollable.scrollTop <= scrollable.scrollHeight - scrollable.height
          /\ 0 <= scrollable.scrollLeft
          /\ scrollable.scrollLeft <= scrollable.scrollWidth - scrollable.width)
    /\ [][FiresWhenMoved]_vars

\* The viewport was made taller under content scrolled down: the offset was
\* clamped to the new bottom and the event fired.
C28_Witness ==
    /\ hist.op = "setHeight"
    /\ events # <<>>
    /\ scrollable.height > 0
    /\ scrollable.scrollTop > 0
    /\ scrollable.scrollTop = scrollable.scrollHeight - scrollable.height

====
